---- MODULE Spec2Model ----
(***************************************************************************)
(* pi-proximity-display: the controller loop of main.rs, the hysteresis    *)
(* state machine State::update / State::transition, the brightness mapper, *)
(* Display::set_brightness and the two-byte result reads of the vcnl4010   *)
(* driver.                                                                 *)
(*                                                                         *)
(* Time.  The program observes the clock only inside State::update         *)
(* (Instant::now() and Instant::elapsed()), once per cycle.  `clock` is    *)
(* the value Instant::now() returns there; it advances in the              *)
(* thread::sleep that ends every cycle, by at least one unit (the sleep    *)
(* is 250 ms and Instant is monotonic).                                    *)
(*                                                                         *)
(* The cycle counter `count` of main.rs only drives a log line and is left *)
(* out.                                                                    *)
(***************************************************************************)
EXTENDS Integers, Sequences, FiniteSets, TLC

\* ---------------------------------------------------------------- bounds
\* largest value of the clock
MaxTime == 3
\* largest configured --proximity-hold
MaxHold == 1
\* longest time one thread::sleep may take
MaxSleep == 2

\* ------------------------------------------------------------ input sets
\* bytes the bus may return for a result register (high byte, low byte)
HighBytes == {0, 1}
LowBytes == {0, 1}

None == [tag |-> "None"]
Range(s, e) == [tag |-> "Range", start |-> s, end |-> e]

\* --proximity-range: ordered, start = end, start > end (parse_range accepts all)
ProximityRanges == {Range(1, 257), Range(1, 1), Range(256, 1)}
\* --ambient-light-range and --brightness-range (both optional)
AmbientRanges == {None, Range(0, 2), Range(2, 0)}
BrightnessRanges == {None, Range(0, 2), Range(2, 0)}
\* the backlight found at startup: (brightness, max_brightness)
Displays == {[brightness |-> b, max_brightness |-> 1] : b \in {0, 1}}

\* ------------------------------------------------------------ State enum
Detected == [tag |-> "Detected"]
Cleared == [tag |-> "Cleared"]
ClearedTransitioning(t) == [tag |-> "ClearedTransitioning", t0 |-> t]

IsTransitioning(s) == s.tag = "ClearedTransitioning"

\* Instant::elapsed: now - self
elapsed(i, now) == now - i

\* update with the hold timer looked at before the detection threshold
update_hold_first(self, a, proximity, now) ==
    IF IsTransitioning(self) /\ elapsed(self.t0, now) > a.proximity_hold
    THEN Cleared
    ELSE IF self.tag # "Detected" /\ proximity >= a.proximity_range.end
    THEN Detected
    ELSE IF self.tag = "Detected" /\ proximity <= a.proximity_range.start
    THEN ClearedTransitioning(now)
    ELSE None

\* update clearing at once, without the waiting state
update_no_debounce(self, a, proximity, now) ==
    IF self.tag # "Detected" /\ proximity >= a.proximity_range.end
    THEN Detected
    ELSE IF self.tag = "Detected" /\ proximity <= a.proximity_range.start
    THEN Cleared
    ELSE IF IsTransitioning(self) /\ elapsed(self.t0, now) > a.proximity_hold
    THEN Cleared
    ELSE None

\* update clearing as soon as the hold duration is reached (>= for >)
update_hold_reached(self, a, proximity, now) ==
    IF self.tag # "Detected" /\ proximity >= a.proximity_range.end
    THEN Detected
    ELSE IF self.tag = "Detected" /\ proximity <= a.proximity_range.start
    THEN ClearedTransitioning(now)
    ELSE IF IsTransitioning(self) /\ elapsed(self.t0, now) >= a.proximity_hold
    THEN Cleared
    ELSE None

\* update restarting the hold timer on every low reading of the window
update_restart_timer(self, a, proximity, now) ==
    IF self.tag # "Detected" /\ proximity >= a.proximity_range.end
    THEN Detected
    ELSE IF self.tag # "Cleared" /\ proximity <= a.proximity_range.start
            /\ ~(IsTransitioning(self) /\ elapsed(self.t0, now) > a.proximity_hold)
    THEN ClearedTransitioning(now)
    ELSE IF IsTransitioning(self) /\ elapsed(self.t0, now) > a.proximity_hold
    THEN Cleared
    ELSE None

\* update with detection only from Cleared: a reading >= high inside the
\* window does not stop the pending clear
update_detect_from_cleared(self, a, proximity, now) ==
    IF self.tag = "Cleared" /\ proximity >= a.proximity_range.end
    THEN Detected
    ELSE IF self.tag = "Detected" /\ proximity <= a.proximity_range.start
    THEN ClearedTransitioning(now)
    ELSE IF IsTransitioning(self) /\ elapsed(self.t0, now) > a.proximity_hold
    THEN Cleared
    ELSE None

\* update without the end of the hold: ClearedTransitioning is left only for
\* Detected
update_without_clear(self, a, proximity, now) ==
    IF self.tag # "Detected" /\ proximity >= a.proximity_range.end
    THEN Detected
    ELSE IF self.tag = "Detected" /\ proximity <= a.proximity_range.start
    THEN ClearedTransitioning(now)
    ELSE None

\* update with the debounce begun from Cleared too
update_debounce_from_cleared(self, a, proximity, now) ==
    IF self.tag # "Detected" /\ proximity >= a.proximity_range.end
    THEN Detected
    ELSE IF ~IsTransitioning(self) /\ proximity <= a.proximity_range.start
    THEN ClearedTransitioning(now)
    ELSE IF IsTransitioning(self) /\ elapsed(self.t0, now) > a.proximity_hold
    THEN Cleared
    ELSE None

\* State::update(&self, args, proximity) -> Option<State>; `now` is the clock
update(self, a, proximity, now) ==
    IF self.tag # "Detected" /\ proximity >= a.proximity_range.end
    THEN Detected
    ELSE IF self.tag = "Detected" /\ proximity <= a.proximity_range.start
    THEN ClearedTransitioning(now)
    ELSE IF IsTransitioning(self) /\ elapsed(self.t0, now) > a.proximity_hold
    THEN Cleared
    ELSE None

\* transition powering the display off in the waiting state too
transition_off_while_waiting(self) ==
    CASE self.tag = "Detected" -> "power_on"
      [] OTHER -> "power_off"

\* State::transition: the power action of a state, "none" for the waiting state
transition(self) ==
    CASE self.tag = "Detected" -> "power_on"
      [] self.tag = "Cleared" -> "power_off"
      [] OTHER -> "none"

\* --------------------------------------------------- two-byte result reads
RECURSIVE BitOr(_, _)
BitOr(a, b) ==
    IF a = 0 THEN b
    ELSE IF b = 0 THEN a
    ELSE (IF a % 2 = 1 \/ b % 2 = 1 THEN 1 ELSE 0) + 2 * BitOr(a \div 2, b \div 2)

\* the two bytes composed the other way round
compose_low_first(high, low) == BitOr((low * 256) % 65536, high)

\* ((high as u16) << 8) | (low as u16)
compose(high, low) == BitOr((high * 256) % 65536, low)

\* ------------------------------------------------------ brightness mapper
\* u32 `end - start`: an underflow panics when overflow checks are compiled in
\* (debug profile) and wraps to 2^32 - (start - end) otherwise (release
\* profile).  A wrapped difference is kept as [wrapped |-> TRUE, v |-> start - end].
sub_u32(end, start, checks) ==
    IF end >= start THEN [panic |-> FALSE, wrapped |-> FALSE, v |-> end - start]
    ELSE IF checks THEN [panic |-> TRUE, wrapped |-> FALSE, v |-> 0]
    ELSE [panic |-> FALSE, wrapped |-> TRUE, v |-> start - end]

Abs(n) == IF n < 0 THEN -n ELSE n

\* f32::round of n / d (d > 0): to the nearest integer, halves away from zero
round(n, d) ==
    IF n >= 0 THEN (2 * n + d) \div (2 * d) ELSE -((2 * (-n) + d) \div (2 * d))

\* `as u32` of a rounded f32: negative values saturate to 0 (the upper
\* saturation at 2^32 - 1 is beyond every value of the model)
as_u32(r) == IF r < 0 THEN 0 ELSE r

\* the distance between neighbouring f32 values at magnitude n (n an integer):
\* 1 below 2^24, doubling with every further binary digit
RECURSIVE ulp(_)
ulp(n) == IF n < 16777216 THEN 1 ELSE 2 * ulp(n \div 2)

\* `n as f32` for an integer 0 <= n < 2^31: the nearest f32, ties to the even
\* mantissa; exact up to 2^24
to_f32(n) ==
    LET s == ulp(n)
        lo == (n \div s) * s
        r == n - lo
    IN  IF 2 * r < s THEN lo
        ELSE IF 2 * r > s THEN lo + s
        ELSE IF (lo \div s) % 2 = 0 THEN lo ELSE lo + s

\* f32 rounding of a signed integer
signed_f32(n) == IF n < 0 THEN -to_f32(-n) ELSE to_f32(n)

\* (brightness_start + ((ambient - ambient_start) * brightness_span) / ambient_span)
\* .round(), all operands f32.  Three cases are modelled; inputs outside them
\* are outside the model:
\*  - brightness_start * ambient_span + |product| is below 2^22: the two f32
\*    roundings (of the quotient and of the sum) move the value by less than
\*    1 / (2 * ambient_span), too little to change the result of round(),
\*    which is the exact quotient rounded half away from zero;
\*  - ambient_span divides the product: the quotient is an integer and the sum
\*    is that integer rounded to f32;
\*  - a wrapped ambient span 2^32 - v: the quotient is below 1/2 in magnitude
\*    whenever |product| + v < 2^31 - 1, so the sum rounds to brightness_start.
mapped_round(ambient, ambient_start, brightness_start, ambient_span, brightness_span) ==
    LET a_f == to_f32(ambient)
        as_f == to_f32(ambient_start)
        bs_f == to_f32(brightness_start)
        aspan_f == to_f32(ambient_span.v)
        bspan_f == to_f32(brightness_span.v)
        num == signed_f32(signed_f32(a_f - as_f) * bspan_f)
        small == bs_f * aspan_f + Abs(num) < 4194304
    IN  CASE ~ambient_span.wrapped /\ small ->
                round(bs_f * aspan_f + num, aspan_f)
          [] ~ambient_span.wrapped /\ ~small /\ num % aspan_f = 0 ->
                signed_f32(bs_f + num \div aspan_f)
          [] ambient_span.wrapped /\ Abs(num) + ambient_span.v < 2147483647 ->
                bs_f

Ok(v) == [panic |-> FALSE, val |-> v]
Panic == [panic |-> TRUE, val |-> 0]

\* Ord::clamp(self, min, max): asserts min <= max
clamp(x, min, max) ==
    IF min > max THEN Panic
    ELSE IF x < min THEN Ok(min)
    ELSE IF x > max THEN Ok(max)
    ELSE Ok(x)

\* map_ambient_to_display_brightness(ambient, ambient_light_range, brightness_range);
\* `checks` says whether arithmetic overflow checks are compiled in
map_ambient_to_display_brightness(ambient, ambient_light_range, brightness_range, checks) ==
    LET ambient_span == sub_u32(ambient_light_range.end, ambient_light_range.start, checks)
        brightness_span == sub_u32(brightness_range.end, brightness_range.start, checks)
    IN  IF ambient_span.panic \/ brightness_span.panic THEN Panic
        ELSE IF (~ambient_span.wrapped /\ ambient_span.v = 0)
                \/ (~brightness_span.wrapped /\ brightness_span.v = 0)
        THEN Ok(brightness_range.start)
        ELSE IF brightness_span.wrapped
        THEN clamp(0, brightness_range.start, brightness_range.end)
        ELSE clamp(as_u32(mapped_round(ambient, ambient_light_range.start,
                                       brightness_range.start,
                                       ambient_span, brightness_span)),
                   brightness_range.start, brightness_range.end)

\* -------------------------------------------------------- Display
\* a range check that leaves out the maximum
in_range_exclusive(display, b) == 0 <= b /\ b < display.max_brightness

\* Display::set_brightness range check: (0..=max_brightness).contains(&brightness)
in_range(display, b) == 0 <= b /\ b <= display.max_brightness

\* ------------------------------------------------------- register map
REG_COMMAND == 128
REG_PRODUCT_ID == 129
REG_LED_CURRENT == 131
REG_AMBIENT_LIGHT_RESULT_HIGH == 133
REG_AMBIENT_LIGHT_RESULT_LOW == 134
REG_PROXIMITY_RESULT_HIGH == 135
REG_PROXIMITY_RESULT_LOW == 136

\* ---------------------------------------------------- ProductInfo
\* #[bitfield(u8)]: revision is the low nibble, product the high nibble
revision(bits) == bits % 16
product_id(bits) == (bits \div 16) % 16

InvalidProduct(p, r) == [tag |-> "InvalidProduct", product |-> p, revision |-> r]
Verified(bits) == [tag |-> "Ok", bits |-> bits]

\* the check of the product alone
verify_product_only(bits) ==
    IF ~(product_id(bits) = 2)
    THEN InvalidProduct(product_id(bits), revision(bits))
    ELSE Verified(bits)

\* ProductInfo::verify
ProductInfo_verify(bits) ==
    IF ~(product_id(bits) = 2 /\ revision(bits) = 1)
    THEN InvalidProduct(product_id(bits), revision(bits))
    ELSE Verified(bits)

\* ----------------------------------------------------- LEDCurrent
\* #[bitfield(u8)]: current is bits 0-5, fuse_prog_id bits 6-7
current(bits) == bits % 64
fuse_prog_id(bits) == (bits \div 64) % 4

\* the generated setter: replaces the six current bits
with_current(bits, val) == fuse_prog_id(bits) * 64 + (val % 64)

InvalidLEDCurrent(c) == [tag |-> "InvalidLEDCurrent", current |-> c]

\* LEDCurrent::verify
LEDCurrent_verify(bits) ==
    IF current(bits) > 20 THEN InvalidLEDCurrent(current(bits))
    ELSE Verified(bits)

\* the current code without the upper limit
with_current_ma_unclamped(bits, ma) == with_current(bits, (ma \div 10) % 256)

\* LEDCurrent::with_current_ma: (ma / 10).clamp(0, 20) as u8
with_current_ma(bits, ma) == with_current(bits, clamp(ma \div 10, 0, 20).val % 256)

\* LEDCurrent::to_milliamps
to_milliamps(bits) == (current(bits) * 10) % 65536

\* ------------------------------------------------------------- state
VARIABLES
    args,               \* the parsed command line (immutable)
    overflow_checks,    \* whether the build panics on integer overflow
    selected_display,   \* Display: brightness, max_brightness
    state,              \* main: `state`
    brightness,         \* main: `brightness`, the last value applied
    high,               \* read_proximity / read_ambient_light: `high`
    proximity_val,      \* main: `proximity_val`, -1 before the first read
    ambient_light_val,  \* main: `ambient_light_val`, -1 before the first read
    new,                \* main: the result of state.update in this cycle
    pc,                 \* position in the loop body
    clock,              \* Instant::now()
    err,                \* the operation whose error ended main, or "none"
    product,            \* main: `product`, the verified ProductInfo
    call,               \* a function called on its own: inputs, progress, result
    \* history of the run, not read by the program
    ops,                \* calls made so far in this cycle, in order
    prev_state,         \* `state` when this cycle began
    same_prox,          \* this cycle read the proximity of the cycle before
    same_amb,           \* this cycle read the ambient light of the cycle before
    window,             \* the polls since ClearedTransitioning was entered
    before              \* the last power command of the cycles before this
                        \* one, and the display brightness when it began

vars == <<args, overflow_checks, selected_display, state, brightness, high,
          proximity_val, ambient_light_val, new, pc, clock, err, ops,
          prev_state, same_prox, same_amb, window, product, call, before>>

\* what the loop never changes
config == <<args, overflow_checks, product, call>>
history == <<prev_state, same_prox, same_amb, window, before>>

\* a call of the cycle: the bus read of a register, a power command, ...
Call(name, arg) == [op |-> name, arg |-> arg]

\* no ClearedTransitioning window is open
NoWindow == [open |-> FALSE, entered_at |-> 0, entry_low |-> TRUE,
             all_low |-> TRUE, later_below_high |-> TRUE]

\* the window after a poll that read `proximity` at time `now` and took
\* `state` from s to t
poll(w, s, t, a, proximity, now) ==
    IF ~IsTransitioning(s) /\ IsTransitioning(t)
    THEN [open |-> TRUE,
          entered_at |-> now,
          entry_low |-> proximity <= a.proximity_range.start,
          all_low |-> proximity <= a.proximity_range.start,
          later_below_high |-> TRUE]
    ELSE IF IsTransitioning(s)
    THEN [open |-> TRUE,
          entered_at |-> w.entered_at,
          entry_low |-> w.entry_low,
          all_low |-> w.all_low /\ proximity <= a.proximity_range.start,
          later_below_high |-> w.later_below_high /\ proximity < a.proximity_range.end]
    ELSE NoWindow

\* the last power command among the calls `o`, or `earlier` when there is none
last_power(o, earlier) ==
    LET P == {i \in DOMAIN o : o[i].op \in {"power_on", "power_off"}}
    IN  IF P = {} THEN earlier
        ELSE IF o[CHOOSE i \in P : \A j \in P : j <= i].op = "power_on"
        THEN "on" ELSE "off"

\* an error that is logged and skipped
Try_continue(ok, next) == next

\* the `?` operator: go on when the call succeeded, leave main otherwise
Try(ok, next) == IF ok THEN next ELSE "failed"

\* the loop body with the ambient light read first
after_ambient_first(p) ==
    CASE p = "read_ambient_high" -> "read_ambient_low"
      [] p = "read_ambient_low" -> "read_proximity_high"
      [] p = "read_proximity_high" -> "read_proximity_low"
      [] p = "read_proximity_low" -> "update"
      [] p = "update" -> "transition"
      [] p = "transition" -> "brightness"
      [] p = "brightness" -> "set_brightness"
      [] p = "set_brightness" -> "sleep"
      [] p = "sleep" -> "read_ambient_high"

\* the statement that follows p in the loop body
after(p) ==
    CASE p = "read_proximity_high" -> "read_proximity_low"
      [] p = "read_proximity_low" -> "read_ambient_high"
      [] p = "read_ambient_high" -> "read_ambient_low"
      [] p = "read_ambient_low" -> "update"
      [] p = "update" -> "transition"
      [] p = "transition" -> "brightness"
      [] p = "brightness" -> "set_brightness"
      [] p = "set_brightness" -> "sleep"
      [] p = "sleep" -> "read_proximity_high"

\* ranges with a default in place of an unset range
ranges_or_default(a) ==
    [tag |-> "Some",
     ambient |-> IF a.ambient_light_range # None
                 THEN a.ambient_light_range ELSE Range(0, 2),
     display |-> IF a.brightness_range # None
                 THEN a.brightness_range ELSE Range(0, 2)]

\* main, line 193: if let (Some(ambient), Some(display)) = (..)
ranges(a) ==
    IF a.ambient_light_range # None /\ a.brightness_range # None
    THEN [tag |-> "Some", ambient |-> a.ambient_light_range,
          display |-> a.brightness_range]
    ELSE None

\* the comparison with the last applied value left out
brightness_always(new_brightness, old) == TRUE

\* main, line 195: if new_brightness != brightness
brightness_changed(new_brightness, old) == new_brightness # old

\* no function is being called on its own
NoCall == [fn |-> "none", in |-> <<>>, stage |-> "idle", regs |-> <<>>, out |-> <<>>]

\* the function fn about to run on the inputs `in`
Called(fn, in) ==
    [fn |-> fn, in |-> in, stage |-> "called", regs |-> <<>>, out |-> <<>>]

\* main, lines 154-156 and 179-181: the arguments, the selected display and
\* the locals of the loop, with main at the statement `at`
Start(at) ==
    /\ args \in [proximity_range : ProximityRanges,
                 proximity_hold : 0..MaxHold,
                 ambient_light_range : AmbientRanges,
                 brightness_range : BrightnessRanges]
    /\ overflow_checks \in BOOLEAN
    /\ selected_display \in Displays
    /\ state = Cleared
    /\ brightness = 0
    /\ high = 0
    /\ proximity_val = -1
    /\ ambient_light_val = -1
    /\ new = None
    /\ pc = at
    /\ clock = 0
    /\ err = "none"
    /\ ops = <<>>
    /\ prev_state = Cleared
    /\ same_prox = FALSE
    /\ same_amb = FALSE
    /\ window = NoWindow
    /\ call = NoCall
    /\ before = [powered |-> "none",
                 display_brightness |-> selected_display.brightness]

\* main at the top of the loop, the sensor verified and configured
Init ==
    /\ Start(after("sleep"))
    /\ product \in {r \in {ProductInfo_verify(bits) : bits \in 0..255} : r.tag = "Ok"}

\* smbus_read_byte_data(reg) of a high byte
ReadHigh(at, reg) ==
    /\ pc = at
    /\ \E ok \in BOOLEAN, byte \in HighBytes :
        /\ ops' = Append(ops, Call("smbus_read_byte_data", reg))
        /\ high' = IF ok THEN byte ELSE high
        /\ err' = IF ok THEN err ELSE at
        /\ pc' = Try(ok, after(at))
    /\ UNCHANGED <<config, selected_display, state, brightness, proximity_val,
                   ambient_light_val, new, clock, history>>

\* read_proximity, line 238
ReadProximityHigh == ReadHigh("read_proximity_high", REG_PROXIMITY_RESULT_HIGH)

\* read_proximity, lines 239-243, and `as u32` in main
ReadProximityLow ==
    /\ pc = "read_proximity_low"
    /\ \E ok \in BOOLEAN, low \in LowBytes :
        /\ ops' = Append(ops, Call("smbus_read_byte_data", REG_PROXIMITY_RESULT_LOW))
        /\ proximity_val' = IF ok THEN compose(high, low) ELSE proximity_val
        /\ same_prox' = (ok /\ compose(high, low) = proximity_val)
        /\ err' = IF ok THEN err ELSE "read_proximity_low"
        /\ pc' = Try(ok, after("read_proximity_low"))
    /\ UNCHANGED <<config, selected_display, state, brightness, high,
                   ambient_light_val, new, clock, prev_state, same_amb, window,
                   before>>

\* read_ambient_light, line 227
ReadAmbientHigh == ReadHigh("read_ambient_high", REG_AMBIENT_LIGHT_RESULT_HIGH)

\* read_ambient_light, lines 228-232, and `as u32` in main
ReadAmbientLow ==
    /\ pc = "read_ambient_low"
    /\ \E ok \in BOOLEAN, low \in LowBytes :
        /\ ops' = Append(ops, Call("smbus_read_byte_data", REG_AMBIENT_LIGHT_RESULT_LOW))
        /\ ambient_light_val' = IF ok THEN compose(high, low) ELSE ambient_light_val
        /\ same_amb' = (ok /\ compose(high, low) = ambient_light_val)
        /\ err' = IF ok THEN err ELSE "read_ambient_low"
        /\ pc' = Try(ok, after("read_ambient_low"))
    /\ UNCHANGED <<config, selected_display, state, brightness, high,
                   proximity_val, new, clock, prev_state, same_prox, window,
                   before>>

\* main, lines 187-189: if let Some(new) = state.update(..) { state = new; .. }
Update ==
    /\ pc = "update"
    /\ new' = update(state, args, proximity_val, clock)
    /\ state' = IF new' # None THEN new' ELSE state
    /\ pc' = IF new' # None THEN after("update") ELSE after("transition")
    /\ ops' = Append(ops, Call("update", proximity_val))
    /\ window' = poll(window, state, state', args, proximity_val, clock)
    /\ UNCHANGED <<config, selected_display, brightness, high, proximity_val,
                   ambient_light_val, clock, err, prev_state, same_prox, same_amb,
                   before>>

\* main, line 190: state.transition(&mut selected_display)?
Transition ==
    /\ pc = "transition"
    /\ IF transition(state) = "none"
       THEN /\ pc' = after("transition")
            /\ UNCHANGED <<ops, err>>
       ELSE \E ok \in BOOLEAN :
            /\ ops' = Append(ops, Call(transition(state), 0))
            /\ err' = IF ok THEN err ELSE "transition"
            /\ pc' = Try(ok, after("transition"))
    /\ UNCHANGED <<config, selected_display, state, brightness, high,
                   proximity_val, ambient_light_val, new, clock, history>>

\* main, lines 193-196
Brightness ==
    /\ pc = "brightness"
    /\ IF ranges(args) # None
       THEN LET r == map_ambient_to_display_brightness(
                        ambient_light_val, ranges(args).ambient,
                        ranges(args).display, overflow_checks)
            IN  /\ ops' = Append(ops, Call("map_ambient_to_display_brightness",
                                           ambient_light_val))
                /\ IF r.panic
                   THEN /\ pc' = "panicked"
                        /\ UNCHANGED brightness
                   ELSE IF brightness_changed(r.val, brightness)
                   THEN /\ brightness' = r.val
                        /\ pc' = after("brightness")
                   ELSE /\ pc' = after("set_brightness")
                        /\ UNCHANGED brightness
       ELSE /\ pc' = after("set_brightness")
            /\ UNCHANGED <<ops, brightness>>
    /\ UNCHANGED <<config, selected_display, state, high, proximity_val,
                   ambient_light_val, new, clock, err, history>>

\* main, line 197: selected_display.set_brightness(brightness)?
SetBrightness ==
    /\ pc = "set_brightness"
    /\ IF ~in_range(selected_display, brightness)
       THEN /\ ops' = Append(ops, Call("set_brightness", brightness))
            /\ err' = "set_brightness"
            /\ pc' = Try(FALSE, after("set_brightness"))
            /\ UNCHANGED selected_display
       ELSE \E ok \in BOOLEAN :
            /\ ops' = ops \o <<Call("set_brightness", brightness),
                               Call("fs_write", brightness)>>
            /\ selected_display' =
                 IF ok THEN [selected_display EXCEPT !.brightness = brightness]
                 ELSE selected_display
            /\ err' = IF ok THEN err ELSE "set_brightness"
            /\ pc' = Try(ok, after("set_brightness"))
    /\ UNCHANGED <<config, state, brightness, high, proximity_val,
                   ambient_light_val, new, clock, history>>

\* main, line 208, and the start of the next iteration
Sleep ==
    /\ pc = "sleep"
    /\ \E d \in 1..MaxSleep :
        /\ clock + d <= MaxTime
        /\ clock' = clock + d
    /\ pc' = after("sleep")
    /\ ops' = <<>>
    /\ new' = None
    /\ prev_state' = state
    /\ window' = IF IsTransitioning(state) THEN window ELSE NoWindow
    /\ same_prox' = FALSE
    /\ same_amb' = FALSE
    /\ before' = [powered |-> last_power(ops, before.powered),
                  display_brightness |-> selected_display.brightness]
    /\ UNCHANGED <<config, selected_display, state, brightness, high,
                   proximity_val, ambient_light_val, err>>

Next ==
    \/ ReadProximityHigh
    \/ ReadProximityLow
    \/ ReadAmbientHigh
    \/ ReadAmbientLow
    \/ Update
    \/ Transition
    \/ Brightness
    \/ SetBrightness
    \/ Sleep

Spec == Init /\ [][Next]_vars

\* ------------------------------------------------ the loop without end
\* main, line 208, with a clock that never stops.  update reads the clock
\* only as i.elapsed() > proximity_hold, so the clock is kept up to the first
\* value at which every hold has expired, and is not kept outside
\* ClearedTransitioning, where nothing reads it.
SleepForever ==
    /\ pc = "sleep"
    /\ \E d \in 1..MaxSleep :
        clock' = IF IsTransitioning(state)
                 THEN (IF clock + d > state.t0 + MaxHold + 1
                       THEN state.t0 + MaxHold + 1 ELSE clock + d)
                 ELSE 0
    /\ pc' = after("sleep")
    /\ ops' = <<>>
    /\ new' = None
    /\ prev_state' = state
    /\ window' = IF IsTransitioning(state) THEN window ELSE NoWindow
    /\ same_prox' = FALSE
    /\ same_amb' = FALSE
    /\ before' = [powered |-> last_power(ops, before.powered),
                  display_brightness |-> selected_display.brightness]
    /\ UNCHANGED <<config, selected_display, state, brightness, high,
                   proximity_val, ambient_light_val, err>>

Next_Live ==
    \/ ReadProximityHigh
    \/ ReadProximityLow
    \/ ReadAmbientHigh
    \/ ReadAmbientLow
    \/ Update
    \/ Transition
    \/ Brightness
    \/ SetBrightness
    \/ SleepForever

\* main at the top of the loop, with every proximity range and hold, and
\* with the brightness control, which the state machine does not read, either
\* off or on one pair of ranges
Init_Live ==
    /\ Init
    /\ args.ambient_light_range = Range(0, 2)
    /\ args.brightness_range \in {None, Range(0, 2)}
    /\ selected_display.brightness = 0

\* the steps of the loop other than lines 193-196
Polling ==
    \/ ReadProximityHigh
    \/ ReadProximityLow
    \/ ReadAmbientHigh
    \/ ReadAmbientLow
    \/ Update
    \/ Transition
    \/ SetBrightness
    \/ SleepForever

\* the loop runs on: every call and thread::sleep return, and main does not
\* stay at lines 193-196.  Brightness is enabled exactly when pc is
\* "brightness" and always leaves that position, so its weak fairness is
\* []<>(pc # "brightness").
LiveSpec ==
    /\ Init_Live
    /\ [][Next_Live]_vars
    /\ WF_vars(Polling)
    /\ []<>(pc # "brightness")

\* ------------------------------------------------ the sensor startup
\* the statement that follows p before the loop, main lines 160-176
startup_after(p) ==
    CASE p = "read_product" -> "read_command_register"
      [] p = "read_command_register" -> "set_command_register"
      [] p = "set_command_register" -> "set_led_current_ma"
      [] p = "set_led_current_ma" -> "read_led_current"
      [] p = "read_led_current" -> "read_updated_command_register"
      [] p = "read_updated_command_register" -> after("sleep")

\* main after ProximitySensor::try_new, line 159
Init_Program ==
    /\ Start("read_product")
    /\ product = None

\* one bus transfer of the startup that is followed by `?`
Transfer(at, op, reg) ==
    /\ pc = at
    /\ \E ok \in BOOLEAN :
        /\ err' = IF ok THEN err ELSE at
        /\ pc' = Try(ok, startup_after(at))
        /\ ops' = IF pc' = after("sleep") THEN <<>> ELSE Append(ops, Call(op, reg))
    /\ UNCHANGED <<args, overflow_checks, selected_display, state, brightness,
                   high, proximity_val, ambient_light_val, new, clock, product,
                   call, history>>

\* main, line 160: sensor.read_product()?.verify()?
ReadProduct ==
    /\ pc = "read_product"
    /\ ops' = Append(ops, Call("smbus_read_byte_data", REG_PRODUCT_ID))
    /\ \E ok \in BOOLEAN, byte \in 0..255 :
        IF ok
        THEN LET result == ProductInfo_verify(byte)
             IN  /\ call' = [Called("ProductInfo::verify", <<byte>>) EXCEPT
                                !.stage = "returned", !.out = result]
                 /\ product' = IF result.tag = "Ok" THEN result ELSE product
                 /\ err' = IF result.tag = "Ok" THEN err ELSE "verify"
                 /\ pc' = Try(result.tag = "Ok", startup_after("read_product"))
        ELSE /\ err' = "read_product"
             /\ pc' = Try(FALSE, startup_after("read_product"))
             /\ UNCHANGED <<product, call>>
    /\ UNCHANGED <<args, overflow_checks, selected_display, state, brightness,
                   high, proximity_val, ambient_light_val, new, clock, history>>

\* main, line 163
ReadCommandRegister ==
    Transfer("read_command_register", "smbus_read_byte_data", REG_COMMAND)

\* main, lines 166-171
SetCommandRegister ==
    Transfer("set_command_register", "smbus_write_byte_data", REG_COMMAND)

\* main, line 173
SetLedCurrentMa ==
    Transfer("set_led_current_ma", "smbus_write_byte_data", REG_LED_CURRENT)

\* main, line 174
ReadLedCurrent ==
    Transfer("read_led_current", "smbus_read_byte_data", REG_LED_CURRENT)

\* main, line 176, and the entry into the loop
ReadUpdatedCommandRegister ==
    Transfer("read_updated_command_register", "smbus_read_byte_data", REG_COMMAND)

Next_Program ==
    \/ ReadProduct
    \/ ReadCommandRegister
    \/ SetCommandRegister
    \/ SetLedCurrentMa
    \/ ReadLedCurrent
    \/ ReadUpdatedCommandRegister
    \/ ReadProximityHigh
    \/ ReadProximityLow
    \/ ReadAmbientHigh
    \/ ReadAmbientLow
    \/ Update
    \/ Transition
    \/ Brightness
    \/ SetBrightness
    \/ Sleep

\* the whole of main from the creation of the sensor
Program == Init_Program /\ [][Next_Program]_vars

\* ------------------------------------------- functions on their own
\* the largest ambient reading and range bound given to the mapper
MaxMapped == 3

\* the first number that `as f32` does not keep: 2^24 + 1
F32_INEXACT == 16777217

\* the inputs of map_ambient_to_display_brightness: every combination of
\* small numbers, and brightness ranges at the magnitude where f32 has no
\* odd numbers
MapperInputs ==
    {<<ambient, as, ae, bs, be>> :
        ambient \in 0..MaxMapped, as \in 0..MaxMapped, ae \in 0..MaxMapped,
        bs \in 0..MaxMapped, be \in 0..MaxMapped}
    \cup {<<ambient, 0, 1, F32_INEXACT + d, F32_INEXACT + d + 1>> :
            ambient \in 0..1, d \in 0..1}

\* LEDCurrent values with each fuse_prog_id; 0 is LEDCurrent::new()
LEDCurrents == {0, 85, 170, 255}

\* a function about to be called with inputs of its parameter types; main
\* stands still
Init_Unit ==
    /\ args = [proximity_range |-> Range(1, 257), proximity_hold |-> 0,
               ambient_light_range |-> None, brightness_range |-> None]
    /\ selected_display = [brightness |-> 0, max_brightness |-> 1]
    /\ state = Cleared
    /\ brightness = 0
    /\ high = 0
    /\ proximity_val = -1
    /\ ambient_light_val = -1
    /\ new = None
    /\ pc = "none"
    /\ clock = 0
    /\ err = "none"
    /\ ops = <<>>
    /\ prev_state = Cleared
    /\ same_prox = FALSE
    /\ same_amb = FALSE
    /\ window = NoWindow
    /\ product = None
    /\ before = [powered |-> "none",
                 display_brightness |-> selected_display.brightness]
    /\ \/ \E in \in MapperInputs :
            call = Called("map_ambient_to_display_brightness", in)
       \/ \E bits \in LEDCurrents, ma \in 0..65535 :
            call = Called("with_current_ma", <<bits, ma>>)
       \/ \E bits \in 0..255 : call = Called("verify", <<bits>>)
       \/ \E fn \in {"read_proximity", "read_ambient_light"} :
            call = Called(fn, <<>>)
    \* only the mapper depends on the build
    /\ overflow_checks \in IF call.fn = "map_ambient_to_display_brightness"
                            THEN BOOLEAN ELSE {FALSE}

Returned(out) == [call EXCEPT !.stage = "returned", !.out = out]

Unit(fn, out) ==
    /\ call.fn = fn
    /\ call.stage = "called"
    /\ call' = Returned(out)
    /\ UNCHANGED <<args, overflow_checks, selected_display, state, brightness,
                   high, proximity_val, ambient_light_val, new, pc, clock, err,
                   ops, product, history>>

\* map_ambient_to_display_brightness(ambient, &(as..ae), &(bs..be))
CallMapper ==
    Unit("map_ambient_to_display_brightness",
         map_ambient_to_display_brightness(call.in[1], Range(call.in[2], call.in[3]),
                                           Range(call.in[4], call.in[5]),
                                           overflow_checks))

\* LEDCurrent::from_bits(bits).with_current_ma(ma)
CallWithCurrentMa ==
    Unit("with_current_ma", with_current_ma(call.in[1], call.in[2]))

\* LEDCurrent::from_bits(bits).verify()
CallVerify ==
    Unit("verify", LEDCurrent_verify(call.in[1]))

\* the result registers that a read function reads, in the order of its
\* statements: read_ambient_light lines 227-228, read_proximity lines 238-239
result_registers(fn) ==
    IF fn = "read_proximity"
    THEN <<REG_PROXIMITY_RESULT_HIGH, REG_PROXIMITY_RESULT_LOW>>
    ELSE <<REG_AMBIENT_LIGHT_RESULT_HIGH, REG_AMBIENT_LIGHT_RESULT_LOW>>

\* read_proximity / read_ambient_light: let high = smbus_read_byte_data(..)?
ReadResultHigh ==
    /\ call.fn \in {"read_proximity", "read_ambient_light"}
    /\ call.stage = "called"
    /\ \E ok \in BOOLEAN, byte \in 0..255 :
        call' = [call EXCEPT
                    !.regs = Append(@, result_registers(call.fn)[1]),
                    !.in = IF ok THEN <<byte>> ELSE @,
                    !.stage = IF ok THEN "high" ELSE "failed"]
    /\ UNCHANGED <<args, overflow_checks, selected_display, state, brightness,
                   high, proximity_val, ambient_light_val, new, pc, clock, err,
                   ops, product, history>>

\* read_proximity / read_ambient_light: let low = smbus_read_byte_data(..)?,
\* and the value returned
ReadResultLow ==
    /\ call.fn \in {"read_proximity", "read_ambient_light"}
    /\ call.stage = "high"
    /\ \E ok \in BOOLEAN, byte \in 0..255 :
        call' = [call EXCEPT
                    !.regs = Append(@, result_registers(call.fn)[2]),
                    !.in = IF ok THEN Append(@, byte) ELSE @,
                    !.stage = IF ok THEN "returned" ELSE "failed",
                    !.out = IF ok THEN compose(call.in[1], byte) ELSE @]
    /\ UNCHANGED <<args, overflow_checks, selected_display, state, brightness,
                   high, proximity_val, ambient_light_val, new, pc, clock, err,
                   ops, product, history>>

Next_Unit ==
    \/ CallMapper
    \/ CallWithCurrentMa
    \/ CallVerify
    \/ ReadResultHigh
    \/ ReadResultLow

UnitSpec == Init_Unit /\ [][Next_Unit]_vars

\* ------------------------------------------------- reading the history
\* the current cycle has made the call `name`
Issued(name) == \E i \in DOMAIN ops : ops[i].op = name

\* the current cycle has evaluated state.update
Updated == Issued("update")

PowerCalls == {i \in DOMAIN ops : ops[i].op \in {"power_on", "power_off"}}

low_threshold == args.proximity_range.start
high_threshold == args.proximity_range.end

\* ------------------------------------------------------------ claims

\* C1: State::update, rule 1: from every state other than Detected (Cleared,
\* or ClearedTransitioning with any elapsed time, also beyond the hold
\* duration) a reading >= the high threshold makes update return Detected in
\* that same poll.
C1_DetectImmediately ==
    (Updated /\ prev_state.tag # "Detected" /\ proximity_val >= high_threshold)
        => (new = Detected /\ state = Detected)

\* C1 witness: a reading >= high arrived in ClearedTransitioning after the hold
\* duration had expired, and the state is Detected.
C1_Witness ==
    /\ Updated
    /\ IsTransitioning(prev_state)
    /\ clock - prev_state.t0 > args.proximity_hold
    /\ proximity_val >= high_threshold
    /\ state = Detected

\* C2: State::update, rule 2: in Detected with a reading <= the low threshold
\* update returns ClearedTransitioning(t0) with t0 the time of that poll;
\* Detected never goes to Cleared directly, and the transition issues no power
\* action.
C2_BeginDebounce ==
    (Updated /\ prev_state.tag = "Detected")
        => /\ state.tag # "Cleared"
           /\ (proximity_val <= low_threshold
                 => /\ new = ClearedTransitioning(clock)
                    /\ state = new
                    /\ PowerCalls = {})

\* C2 witness: a later cycle took Detected to ClearedTransitioning and reached
\* the end of the cycle.
C2_Witness ==
    /\ pc = "sleep"
    /\ prev_state.tag = "Detected"
    /\ proximity_val <= low_threshold
    /\ clock > 0
    /\ state = ClearedTransitioning(clock)

\* C3: State::update, rule 3: in ClearedTransitioning(t0) with a reading below
\* the high threshold update returns Cleared if and only if now - t0 is
\* strictly greater than the hold duration; with now - t0 <= hold (also when
\* equal) there is no transition.
C3_ClearAfterHold ==
    (Updated /\ IsTransitioning(prev_state) /\ proximity_val < high_threshold)
        => /\ (new = Cleared) <=> (clock - prev_state.t0 > args.proximity_hold)
           /\ (clock - prev_state.t0 <= args.proximity_hold)
                 => (new = None /\ state = prev_state)
           /\ (new = Cleared) => (state = Cleared)

\* C3 witness: a poll exactly hold_duration after t0, hold > 0, left the state
\* in ClearedTransitioning(t0).
C3_Witness ==
    /\ Updated
    /\ IsTransitioning(prev_state)
    /\ proximity_val < high_threshold
    /\ args.proximity_hold > 0
    /\ clock - prev_state.t0 = args.proximity_hold
    /\ new = None

\* the preconditions of rules 1-3 for the poll of the current cycle
Rule1 == prev_state.tag # "Detected" /\ proximity_val >= high_threshold
Rule2 == prev_state.tag = "Detected" /\ proximity_val <= low_threshold
Rule3 ==
    IsTransitioning(prev_state) /\ clock - prev_state.t0 > args.proximity_hold

\* rule 4 proper: no rule applies, nothing is returned, the state is kept
NoRuleNoChange ==
    (Updated /\ ~Rule1 /\ ~Rule2 /\ ~Rule3)
        => (new = None /\ state = prev_state)

\* a reading strictly between the thresholds changes neither Detected nor Cleared
BetweenKeeps ==
    (Updated /\ prev_state.tag \in {"Detected", "Cleared"}
       /\ low_threshold < proximity_val /\ proximity_val < high_threshold)
        => (new = None /\ state = prev_state)

\* C4 as stated: rule 4 keeps the state (with the original t0); between the
\* thresholds Detected and Cleared are kept; and a reading >= high never
\* changes Detected.
C4_Original ==
    /\ NoRuleNoChange
    /\ BetweenKeeps
    /\ (Updated /\ prev_state.tag = "Detected" /\ proximity_val >= high_threshold)
          => (new = None /\ state = Detected)

\* C4 amended: rule 4 keeps the state (with the original t0); between the
\* thresholds Detected and Cleared are kept; and a reading >= high that is
\* also > low never changes Detected (with high <= reading <= low, possible
\* when low >= high, rule 2 opens the hold window instead).
C4_Amended ==
    /\ NoRuleNoChange
    /\ BetweenKeeps
    /\ (Updated /\ prev_state.tag = "Detected" /\ proximity_val >= high_threshold
          /\ proximity_val > low_threshold)
          => (new = None /\ state = Detected)
    /\ (Updated /\ prev_state.tag = "Detected" /\ proximity_val >= high_threshold
          /\ proximity_val <= low_threshold)
          => (new = ClearedTransitioning(clock))

\* C4 witness: a second low reading inside the hold window, after time has
\* passed, left ClearedTransitioning with its original t0.
C4_Witness ==
    /\ Updated
    /\ IsTransitioning(prev_state)
    /\ proximity_val <= low_threshold
    /\ clock > prev_state.t0
    /\ new = None
    /\ state = prev_state

\* C5 as stated: whenever a power-off is issued, every poll from the one that
\* entered ClearedTransitioning up to and including the one that issued the
\* power-off read a proximity <= low, and more than hold_duration lies
\* between those two polls.
C5_Original ==
    Issued("power_off")
        => /\ window.open
           /\ window.all_low
           /\ clock - window.entered_at > args.proximity_hold

\* C5 amended: whenever a power-off is issued, the poll that entered
\* ClearedTransitioning read a proximity <= low, every later poll up to and
\* including the one that issued the power-off read a proximity < high (not
\* necessarily <= low), and more than hold_duration lies between those two
\* polls.
C5_Amended ==
    Issued("power_off")
        => /\ window.open
           /\ window.entry_low
           /\ window.later_below_high
           /\ clock - window.entered_at > args.proximity_hold

\* C5 witness: a power-off was issued although a poll of the window read a
\* proximity strictly between the thresholds.
C5_Witness ==
    /\ Issued("power_off")
    /\ window.open
    /\ ~window.all_low
    /\ window.later_below_high

\* the cycle is past line 190 (state.transition(..)?), whether it went on, ended
\* the loop there or ended it later
PastTransition ==
    \/ pc \in {"brightness", "set_brightness", "sleep", "panicked"}
    \/ pc = "failed" /\ err \in {"transition", "set_brightness"}

\* C6: power actions happen once per transition: in every cycle a power-on is
\* issued iff update returned Detected, a power-off iff update returned
\* Cleared, none when update returned ClearedTransitioning or nothing; at
\* most one power action per cycle.
C6_PowerPerTransition ==
    /\ Cardinality(PowerCalls) <= 1
    /\ Issued("power_on") => new = Detected
    /\ Issued("power_off") => new = Cleared
    /\ PastTransition => /\ (new = Detected => Issued("power_on"))
                         /\ (new = Cleared => Issued("power_off"))

\* C6 witness: a cycle that entered ClearedTransitioning ended without a power
\* action, after an earlier cycle had detected.
C6_Witness ==
    /\ pc = "sleep"
    /\ IsTransitioning(new)
    /\ PowerCalls = {}

\* the cycle repeats the readings of the cycle before it
SameReadings == same_prox /\ same_amb

\* C7 as stated: if two consecutive cycles read the same proximity and the
\* same ambient light, the second issues no power write and no brightness
\* write.
C7_Original ==
    SameReadings => (PowerCalls = {} /\ ~Issued("set_brightness"))

\* C7 amended: if two consecutive cycles read the same proximity and the same
\* ambient light, the second issues no brightness write, and no power write
\* unless the first left the state in ClearedTransitioning (the second may
\* then power off once the hold duration has expired, or power on when
\* high <= reading <= low).
C7_Amended ==
    SameReadings
        => /\ ~Issued("set_brightness")
           /\ ~IsTransitioning(prev_state) => PowerCalls = {}

\* C7 witness: a cycle repeating the readings of a cycle that powered the
\* display on and wrote a brightness reached its end with brightness control
\* configured.
C7_Witness ==
    /\ pc = "sleep"
    /\ SameReadings
    /\ ranges(args) # None
    /\ brightness = 1
    /\ selected_display.brightness = 1
    /\ state = Detected
    /\ proximity_val >= high_threshold

Read(reg) == Call("smbus_read_byte_data", reg)

\* the calls of a cycle up to the one at position p of the loop body
ReadsUpTo(p) ==
    CASE p = "read_proximity_high" -> <<Read(REG_PROXIMITY_RESULT_HIGH)>>
      [] p = "read_proximity_low" ->
            <<Read(REG_PROXIMITY_RESULT_HIGH), Read(REG_PROXIMITY_RESULT_LOW)>>
      [] p = "read_ambient_high" ->
            <<Read(REG_PROXIMITY_RESULT_HIGH), Read(REG_PROXIMITY_RESULT_LOW),
              Read(REG_AMBIENT_LIGHT_RESULT_HIGH)>>
      [] OTHER ->
            <<Read(REG_PROXIMITY_RESULT_HIGH), Read(REG_PROXIMITY_RESULT_LOW),
              Read(REG_AMBIENT_LIGHT_RESULT_HIGH), Read(REG_AMBIENT_LIGHT_RESULT_LOW)>>

ReadPositions ==
    {"read_proximity_high", "read_proximity_low", "read_ambient_high",
     "read_ambient_low"}

\* no call occurs twice in the cycle
NoRetry == \A i, j \in DOMAIN ops : ops[i] = ops[j] => i = j

\* C8: fail-fast: when a sensor read, a power action or a brightness write
\* fails, the loop ends at that call: the failed call is the last call of the
\* cycle, it is made once, nothing of the cycle that follows it is done and
\* no further cycle runs; an ambient-light read failure ends the loop also
\* when brightness control is disabled.
C8_FailFast ==
    /\ (pc = "failed") <=> (err # "none")
    /\ err # "none"
         => /\ NoRetry
            /\ err \in ReadPositions => ops = ReadsUpTo(err)
            /\ err = "transition"
                 => /\ Len(ops) = 6
                    /\ SubSeq(ops, 1, 4) = ReadsUpTo("read_ambient_low")
                    /\ ops[6].op \in {"power_on", "power_off"}
            /\ err = "set_brightness"
                 => ops[Len(ops)].op \in {"set_brightness", "fs_write"}
            /\ err \in {"read_proximity_high", "read_proximity_low",
                        "read_ambient_high", "read_ambient_low"}
                 => (state = prev_state /\ new = None)

\* C8 witness: the read of the ambient-light low byte failed in a later cycle
\* with brightness control disabled, and the loop has ended.
C8_Witness ==
    /\ pc = "failed"
    /\ err = "read_ambient_low"
    /\ ranges(args) = None
    /\ clock > 0

\* position of a call in the order of the loop body
Rank(c) ==
    CASE c = Read(REG_PROXIMITY_RESULT_HIGH) -> 1
      [] c = Read(REG_PROXIMITY_RESULT_LOW) -> 2
      [] c = Read(REG_AMBIENT_LIGHT_RESULT_HIGH) -> 3
      [] c = Read(REG_AMBIENT_LIGHT_RESULT_LOW) -> 4
      [] c.op = "update" -> 5
      [] c.op \in {"power_on", "power_off"} -> 6
      [] c.op = "map_ambient_to_display_brightness" -> 7
      [] c.op = "set_brightness" -> 8
      [] c.op = "fs_write" -> 9
      [] OTHER -> 0

\* C9: ordering within every cycle: the proximity registers are read before
\* the ambient-light registers, both reads complete before the state machine
\* is evaluated, the evaluation and its power action complete before the
\* brightness is computed and written, and no two cycles overlap (a cycle
\* starts with no call of the cycle before it pending).
C9_Ordering ==
    /\ \A i, j \in DOMAIN ops : i < j => Rank(ops[i]) < Rank(ops[j])
    /\ \A i \in DOMAIN ops : Rank(ops[i]) > 0
    /\ \A i \in DOMAIN ops :
          Rank(ops[i]) > 4
              => (Len(ops) > 4 /\ SubSeq(ops, 1, 4) = ReadsUpTo("read_ambient_low"))
    /\ \A i \in DOMAIN ops : Rank(ops[i]) > 6 => Updated
    /\ \A i \in DOMAIN ops :
          (Rank(ops[i]) > 6 /\ new \in {Detected, Cleared}) => PowerCalls # {}
    /\ (pc = "read_proximity_high") <=> (ops = <<>>)

\* C9 witness: a later cycle made every call of the loop body: four register
\* reads, update, a power action, the mapper and a brightness write.
C9_Witness ==
    /\ pc = "sleep"
    /\ Len(ops) = 9
    /\ clock > 0

\* C10: if the ambient-light range or the brightness range is not configured,
\* no brightness is computed or written in any cycle and the last-applied
\* brightness keeps its initial value, whatever ambient light is read.
C10_BrightnessDisabled ==
    (args.ambient_light_range = None \/ args.brightness_range = None)
        => /\ ~Issued("map_ambient_to_display_brightness")
           /\ ~Issued("set_brightness")
           /\ ~Issued("fs_write")
           /\ brightness = 0

\* C10 witness: with only one of the two ranges configured a cycle read a
\* non-zero ambient light and powered the display off.
C10_Witness ==
    /\ pc = "sleep"
    /\ args.ambient_light_range # None
    /\ args.brightness_range = None
    /\ ambient_light_val > 0
    /\ Issued("power_off")

\* ------------------------------------------------ claims on the mapper
\* the mapper has returned from a call on its own
Mapped == call.fn = "map_ambient_to_display_brightness" /\ call.stage = "returned"

\* y is the integer nearest to n / d (either neighbour at a tie), brought
\* into lo..hi
NearestClamped(y, n, d, lo, hi) ==
    /\ lo <= y /\ y <= hi
    /\ \/ 2 * Abs(y * d - n) <= d
       \/ y = lo /\ 2 * n <= (2 * lo + 1) * d
       \/ y = hi /\ 2 * n >= (2 * hi - 1) * d

\* C11: for every ambient value and every pair of ranges with start <= end,
\* map_ambient_to_display_brightness returns brightness_range.start when a
\* span is zero, and otherwise brightness_range.start + (ambient -
\* ambient_range.start) * brightness_span / ambient_span rounded to the nearest
\* integer and clamped to [brightness_range.start, brightness_range.end].
C11_ReferenceMapping ==
    (Mapped /\ call.in[2] <= call.in[3] /\ call.in[4] <= call.in[5]) =>
        LET ambient == call.in[1]
            ambient_span == call.in[3] - call.in[2]
            brightness_span == call.in[5] - call.in[4]
        IN  /\ ~call.out.panic
            /\ IF ambient_span = 0 \/ brightness_span = 0
               THEN call.out.val = call.in[4]
               ELSE NearestClamped(call.out.val,
                                   call.in[4] * ambient_span
                                     + (ambient - call.in[2]) * brightness_span,
                                   ambient_span, call.in[4], call.in[5])

\* C12: for all unsigned values of ambient and of the four range bounds, also
\* with a start greater than its end, map_ambient_to_display_brightness
\* returns a value and never aborts.
C12_MapperNeverAborts == Mapped => ~call.out.panic

\* C13: every brightness value the loop passes to Display::set_brightness lies
\* within [0, max_brightness] of the selected display, so a brightness write
\* of the loop never fails the range check.
C13_WritesWithinRange ==
    \A i \in DOMAIN ops :
        ops[i].op = "set_brightness" =>
            (0 <= ops[i].arg /\ ops[i].arg <= selected_display.max_brightness)

\* --------------------------------------------- claims on the collaborators
\* C14: Display::set_brightness(v) fails on the range check if and only if
\* v > max_brightness, and then writes nothing and leaves the recorded
\* brightness unchanged; within the range it writes, fails only if the write
\* fails, and on success the recorded brightness equals v.
C14_SetBrightness ==
    [][pc = "set_brightness" =>
        LET v == brightness
            written == ops' = ops \o <<Call("set_brightness", v), Call("fs_write", v)>>
            failed == pc' = "failed" /\ err' = "set_brightness"
        IN  /\ v > selected_display.max_brightness =>
                /\ failed
                /\ ops' = Append(ops, Call("set_brightness", v))
                /\ selected_display' = selected_display
            /\ v <= selected_display.max_brightness =>
                /\ written
                /\ \/ failed /\ selected_display' = selected_display
                   \/ /\ pc' = after("set_brightness")
                      /\ err' = err
                      /\ selected_display' =
                            [selected_display EXCEPT !.brightness = v]
            /\ (failed /\ ~written) <=> v > selected_display.max_brightness
    ]_vars

\* C14 witness: set_brightness was called with a value above max_brightness;
\* main has ended with its error, nothing was written and the recorded
\* brightness is the one the display had.
C14_Witness ==
    /\ pc = "failed"
    /\ err = "set_brightness"
    /\ ops[Len(ops)].op = "set_brightness"
    /\ ops[Len(ops)].arg > selected_display.max_brightness
    /\ selected_display.brightness = before.display_brightness

Min(a, b) == IF a < b THEN a ELSE b

\* C15: LEDCurrent::with_current_ma: for every 16-bit ma the current code of
\* the result is min(floor(ma / 10), 20), the fuse-program id is unchanged,
\* the result passes LEDCurrent::verify and to_milliamps returns code * 10,
\* at most 200; LEDCurrent::verify fails, with InvalidLEDCurrent(code), if
\* and only if code > 20.
C15_WithCurrentMa ==
    /\ (call.fn = "with_current_ma" /\ call.stage = "returned") =>
        LET code == call.out % 64
        IN  /\ call.out \in 0..255
            /\ code = Min(call.in[2] \div 10, 20)
            /\ call.out \div 64 = call.in[1] \div 64
            /\ LEDCurrent_verify(call.out) = Verified(call.out)
            /\ to_milliamps(call.out) = code * 10
            /\ to_milliamps(call.out) <= 200
    /\ (call.fn = "verify" /\ call.stage = "returned") =>
        LET code == call.in[1] % 64
        IN  IF code > 20 THEN call.out = InvalidLEDCurrent(code)
            ELSE call.out = Verified(call.in[1])

\* C15 witness: with_current_ma(65535) on a value with fuse-program id 3
\* returned code 20 with the id kept.
C15_Witness ==
    /\ call.fn = "with_current_ma"
    /\ call.stage = "returned"
    /\ call.in = <<255, 65535>>
    /\ call.out = 3 * 64 + 20

\* C16: ProductInfo::verify succeeds, returning the same ProductInfo, if and
\* only if product = 2 and revision = 1; for every other register byte it
\* fails with InvalidProduct carrying the two decoded nibbles, and main then
\* ends before any write to the sensor and before the loop.
C16_ProductVerify ==
    /\ call.fn = "ProductInfo::verify" =>
        LET byte == call.in[1]
            p == byte \div 16
            r == byte % 16
        IN  /\ call.out.tag = "Ok" <=> (p = 2 /\ r = 1)
            /\ call.out.tag = "Ok" => (call.out.bits = byte /\ product = call.out)
            /\ call.out.tag # "Ok" =>
                /\ call.out = InvalidProduct(p, r)
                /\ pc = "failed"
                /\ err = "verify"
                /\ ops = <<Call("smbus_read_byte_data", REG_PRODUCT_ID)>>
                /\ proximity_val = -1
                /\ ambient_light_val = -1
    /\ (\/ \E i \in DOMAIN ops : ops[i].op = "smbus_write_byte_data"
        \/ proximity_val # -1
        \/ pc \in {"read_proximity_high", "read_proximity_low"}) =>
            (product # None /\ product.tag = "Ok")

\* C16 witness: the product register held product 3, revision 1; verify
\* failed and main ended after the one read of the product register.
C16_Witness ==
    /\ call.fn = "ProductInfo::verify"
    /\ call.out = InvalidProduct(3, 1)
    /\ pc = "failed"
    /\ Len(ops) = 1

\* C17: read_proximity reads register 0x87 and then 0x88, read_ambient_light
\* 0x85 and then 0x86; for every pair of bytes (h, l) the value returned is
\* (h << 8) | l, within 0..65535; when the read of the high byte fails the
\* low-byte register is not read.
C17_ReadResult ==
    call.fn \in {"read_proximity", "read_ambient_light"} =>
        LET registers == IF call.fn = "read_proximity"
                         THEN <<135, 136>> ELSE <<133, 134>>
        IN  /\ call.stage = "called" => call.regs = <<>>
            /\ call.stage = "high" => call.regs = <<registers[1]>>
            /\ call.stage = "returned" =>
                /\ call.regs = registers
                /\ call.out = call.in[1] * 256 + call.in[2]
                /\ call.out \in 0..65535
            /\ call.stage = "failed" =>
                /\ call.out = <<>>
                /\ call.regs = IF call.in = <<>> THEN <<registers[1]>>
                               ELSE registers

\* C17 witness: read_proximity read 0x01 from 0x87, then 0x02 from 0x88, and
\* returned 0x0102.
C17_Witness ==
    /\ call.fn = "read_proximity"
    /\ call.stage = "returned"
    /\ call.regs = <<135, 136>>
    /\ call.in = <<1, 2>>
    /\ call.out = 258

\* ------------------------------------------------ claims on whole runs
\* main has ended with the error of a call, returned through `?`
Failed == pc = "failed"

PowerOffs == {i \in DOMAIN ops : ops[i].op = "power_off"}

\* C18: with low < high, no call failing and the clock advancing between
\* polls: once a poll in Detected has read a value <= low (the state is then
\* ClearedTransitioning), if every later poll reads below high (the state
\* does not return to Detected) the state eventually becomes Cleared with
\* exactly one power-off issued; and a poll in Detected that reads above low
\* leaves the state Detected and issues no power-off.
C18_ClearingLiveness ==
    /\ (low_threshold < high_threshold /\ IsTransitioning(state))
          ~> \/ state = Cleared /\ Cardinality(PowerOffs) = 1
             \/ state = Detected
             \/ Failed
    /\ [](low_threshold < high_threshold /\ Updated /\ prev_state = Detected
            /\ proximity_val > low_threshold
          => state = Detected /\ new = None /\ PowerOffs = {})

\* C18 witness: with low < high, after a poll <= low in Detected and later
\* polls all below high, the state is Cleared and one power-off was issued.
C18_Witness ==
    /\ low_threshold < high_threshold
    /\ state = Cleared
    /\ new = Cleared
    /\ Cardinality(PowerOffs) = 1
    /\ window.open
    /\ window.entry_low
    /\ window.later_below_high

\* C19: in a run that starts in Cleared, the first power action is a power-on,
\* issued in a cycle whose poll read >= high; every power-off follows a
\* power-on with no other power-off between them; a power-off is issued only
\* in a cycle that began in ClearedTransitioning.
C19_PowerSequencing ==
    /\ (PowerCalls # {} /\ before.powered = "none") =>
            (Issued("power_on") /\ proximity_val >= high_threshold)
    /\ Issued("power_off") =>
            (before.powered = "on" /\ IsTransitioning(prev_state))

\* C19 witness: a power-off is issued in a cycle that began in
\* ClearedTransitioning; the last power command before it was a power-on.
C19_Witness ==
    /\ Issued("power_off")
    /\ before.powered = "on"
    /\ IsTransitioning(prev_state)
    /\ state = Cleared

\* C20: with both ranges configured, at the end of every completed cycle, the
\* first one included and for any startup brightness of the display, the
\* brightness recorded for the display is the mapped value of the ambient
\* light read in the cycle, and a brightness write was issued in the cycle
\* iff that value differs from the one the display had before the cycle.
C20_BrightnessTracking ==
    (pc = "sleep" /\ ranges(args) # None) =>
        LET mapped == map_ambient_to_display_brightness(
                            ambient_light_val, ranges(args).ambient,
                            ranges(args).display, overflow_checks)
        IN  /\ ~mapped.panic
            /\ selected_display.brightness = mapped.val
            /\ Issued("fs_write") <=> mapped.val # before.display_brightness

====
